---------------------------- MODULE Spec2Model ----------------------------
(***************************************************************************)
(* Model of eval.py of MetaHDR: main() evaluates a meta-learned model on   *)
(* the meta-test set in three successive modes (single-shot, adapted with  *)
(* Debevec labels, adapted with HDRCNN labels).                            *)
(*                                                                         *)
(* Floats are exact rationals <<num, den>>.  An image is the record of     *)
(* where it comes from (dataset cell or baseline file), so that a label or *)
(* an input can be traced to its index.                                    *)
(***************************************************************************)
EXTENDS Integers, Sequences, FiniteSets, Bags, TLC

\* ------------------------------------------------------------- bounds
MaxK == 3          \* largest EVAL.NUM_EXPOSURES tried
MaxScenes == 2     \* largest number of meta-test scenes tried
MaxIter == 1       \* largest EVAL.NUM_TASK_TR_ITER tried

\* ------------------------------------------------------------- inputs
\* eval.py:50, the list the assert tests membership in
LossFuncs == {"ExpandNetLoss", "HaarLoss", "LPIPSLoss", "LPIPSLoss_L2", "SSIMLoss"}

\* the values of EVAL.LOSS_FUNC tried: one registered, one not
LossInputs == {"SSIMLoss", "MSELoss"}

\* the parameter states a checkpoint may hold (abstract weights)
Params == 0..1

VARIABLES
    pc,             \* position of main()
    cfg,            \* cfg.EVAL: LOSS_FUNC, NUM_EXPOSURES, NUM_TASK_TR_ITER
    env,            \* what is on disk: checkpoint, number of test scenes
    theta,          \* parameters held by meta_model (-1: none yet)
    shape,          \* all_test_data.shape (<<-1, -1>>: dg not constructed)
    curr_idx,       \* scene loop variable (i of the single-shot loop)
    j,              \* exposure loop variable of the single-shot loop
    idx,            \* running visualisation index
    eval_single,    \* [ssim, psnr]: eval_single_ssim, eval_single_psnr
    eval_adaptive,  \* [ssim, psnr]: eval_adaptive_ssim, eval_adaptive_psnr
    out,            \* the "[Evaluation Results]" lines printed so far
    task,           \* the task built by the latest loop iteration
    calls,          \* every call of an evaluator so far: [mode, scene, exp]
    returned,       \* bags of the metric values returned in the current mode
    rngDraws,       \* draws consumed from numpy's global random stream
    error           \* the exception that ended the run ("none": none)

vars == <<pc, cfg, env, theta, shape, curr_idx, j, idx, eval_single,
          eval_adaptive, out, task, calls, returned, rngDraws, error>>

\* ------------------------------------------------------------- helpers
RECURSIVE SeqSum(_)
SeqSum(s) == IF s = <<>> THEN 0 ELSE Head(s) + SeqSum(Tail(s))

RECURSIVE SetSum(_, _)
SetSum(S, b) ==
    IF S = {} THEN 0
    ELSE LET v == CHOOSE x \in S : TRUE
         IN  v * CopiesIn(v, b) + SetSum(S \ {v}, b)

\* the sum of a bag of numbers, each counted with its multiplicity
BagSum(b) == SetSum(BagToSet(b), b)

Range(s) == {s[p] : p \in 1..Len(s)}

Abs(x) == IF x < 0 THEN -x ELSE x

\* the orders rng.permutation(n) can return
Perms(n) ==
    {p \in [1..n -> 1..n] : \A a, b \in 1..n : a # b => p[a] # p[b]}

\* a Python float: the exact rational <<num, den>>
Float(n) == <<n, 1>>
FAdd(x, v) == <<x[1] + v * x[2], x[2]>>
FDiv(x, n) == <<x[1], x[2] * n>>
FEq(x, y) == x[1] * y[2] = y[1] * x[2]

\* "{:.3f}".format(x), as a number of thousandths (round half to even)
Fmt3(x) ==
    LET q == (1000 * x[1]) \div x[2]
        r == (1000 * x[1]) % x[2]
    IN  IF 2 * r > x[2] THEN q + 1
        ELSE IF 2 * r = x[2] THEN q + (q % 2)
        ELSE q

\* the decimal digits of n >= 0, most significant first
RECURSIVE Digits(_)
Digits(n) == IF n < 10 THEN <<n>> ELSE Append(Digits(n \div 10), n % 10)

RECURSIVE PadZero(_, _)
PadZero(d, w) == IF Len(d) >= w THEN d ELSE PadZero(<<0>> \o d, w)

\* f'{image_idx:06d}': at least six digits, padded on the left with zeros
Format06d(n) == PadZero(Digits(n), 6)

\* ------------------------------------------------------------- images
\* all_test_data[s, e]
DataImage(s, e) == [src |-> "data", scene |-> s, exp |-> e, name |-> <<>>]

\* io.imread(load_dir/f'{name}_out.png').astype(np.float64) / 255
FileImage(name) == [src |-> "file", scene |-> -1, exp |-> -1, name |-> name]

NoTask ==
    [mode |-> "none", scene |-> -1, support |-> <<>>, query |-> <<>>,
     tr_images |-> <<>>, tr_labels |-> <<>>, ts_images |-> <<>>,
     ts_labels |-> <<>>, label_idx |-> <<>>, draw |-> -1, start |-> -1,
     fast |-> -1, ssim |-> -1, psnr |-> -1, absent |-> {}, called |-> FALSE]

\* ------------------------------------------------------------- split
\* np.arange(1, K + 1)
Arange(K) == [p \in 1..K |-> p]

\* sklearn's train_test_split(arr, test_size=1): the first index of the
\* shuffled order is the test set, the others, in order, the train set.
TrainSize(n) == n - 1

\* a split whose train set starts at the test index instead of after it
TrainTestSplitOverlap(arr, perm) ==
    [tr |-> [p \in 1..TrainSize(Len(arr)) |-> arr[perm[p]]],
     ts |-> <<arr[perm[1]]>>]

TrainTestSplit(arr, perm) ==
    [tr |-> [p \in 1..TrainSize(Len(arr)) |-> arr[perm[p + 1]]],
     ts |-> <<arr[perm[1]]>>]

\* ------------------------------------------------------------- evaluators
\* The network and the two evaluators of src.models.metaHDR, over abstract
\* pixel values 0..2.
Forward(p, img) == (p + img.scene + img.exp) % 3

PixelOf(label) ==
    IF label.src = "data" THEN label.scene % 3 ELSE SeqSum(label.name) % 3

Ssim(pred, label) == IF pred = PixelOf(label) THEN 1 ELSE 0

Psnr(pred, label) == 2 - Abs(pred - PixelOf(label))

\* learner = meta_model.clone()
Clone(base) == base

\* one gradient step of the loss over the whole support batch
AdaptStep(fast, imgs, labels) ==
    (fast + 1 + SeqSum([p \in 1..Len(imgs) |->
                           Forward(fast, imgs[p]) + PixelOf(labels[p])])) % 3

RECURSIVE Adapt(_, _, _, _)
Adapt(fast, imgs, labels, n) ==
    IF n = 0 THEN fast
    ELSE Adapt(AdaptStep(fast, imgs, labels), imgs, labels, n - 1)

\* adaptation in place: the shared model keeps the adapted parameters
BaseAfterTaskInPlace(base, fast) == fast

\* what the shared meta_model holds after a task adapted its copy to `fast`
BaseAfterTask(base, fast) == base

\* evaluate_single_maml(meta_model, loss_func, image, label, ...)
EvaluateSingleMaml(base, image, label) ==
    LET pred == Forward(base, image)
    IN  [fast |-> base, ssim |-> Ssim(pred, label), psnr |-> Psnr(pred, label),
         base |-> base]

\* evaluate_maml(meta_model, loss_func, eval_train, eval_test, idx, N, ...)
EvaluateMaml(base, tr_images, tr_labels, ts_images, ts_labels, N) ==
    LET fast == Adapt(Clone(base), tr_images, tr_labels, N)
        pred == Forward(fast, ts_images[1])
    IN  [fast |-> fast, ssim |-> Ssim(pred, ts_labels[1]),
         psnr |-> Psnr(pred, ts_labels[1]), base |-> BaseAfterTask(base, fast)]

\* ------------------------------------------------------------- dataset
\* DataGenerator(num_exposures=K).meta_test_data.shape: scenes x (K + 1)
DatasetShape(scenes, K) == <<scenes, K + 1>>

\* a loop over range(all_test_data.shape[1]), which starts at the reference
FirstExposureZero == 1 - 1

\* range(1, all_test_data.shape[1]) starts at exposure 1
FirstExposure == 1

\* ------------------------------------------------------------- accumulator
ZeroAccumulator == [ssim |-> Float(0), psnr |-> Float(0)]

\* a mode that goes on from the accumulator it finds
ResetAccumulatorKeep(acc) == acc

\* eval_x_ssim = 0.0; eval_x_psnr = 0.0
ResetAccumulator(acc) == ZeroAccumulator

\* eval_x_ssim += test_ssim; eval_x_psnr += test_psnr
Accumulate(acc, r) ==
    [ssim |-> FAdd(acc.ssim, r.ssim), psnr |-> FAdd(acc.psnr, r.psnr)]

\* eval_x_ssim /= n; eval_x_psnr /= n
Average(acc, n) == [ssim |-> FDiv(acc.ssim, n), psnr |-> FDiv(acc.psnr, n)]

\* the two print lines of a mode
Report(mode, acc) ==
    [mode |-> mode, ssim |-> acc.ssim, psnr |-> acc.psnr,
     text |-> <<Fmt3(acc.ssim), Fmt3(acc.psnr)>>]

NoBags == [ssim |-> EmptyBag, psnr |-> EmptyBag]

Record(bags, r) ==
    [ssim |-> bags.ssim (+) SetToBag({r.ssim}),
     psnr |-> bags.psnr (+) SetToBag({r.psnr})]

\* ------------------------------------------------------------- baseline labels
\* eval.py:164-171, the index of the baseline file of support exposure i
ImageIdx(scene, i, L) ==
    LET image_idx == scene + 1
    IN  IF i = 1 THEN image_idx + L
        ELSE IF i = 2 THEN image_idx
        ELSE IF i = 3 THEN image_idx + L * 2
        ELSE image_idx

\* image_idx set once before the loop over tr: each offset adds to the last
RECURSIVE LabelIndicesCarry(_, _, _)
LabelIndicesCarry(tr, scene, L) ==
    IF tr = <<>> THEN <<>>
    ELSE LET before == LabelIndicesCarry(SubSeq(tr, 1, Len(tr) - 1), scene, L)
             image_idx == IF before = <<>> THEN scene + 1
                          ELSE before[Len(before)]
             i == tr[Len(tr)]
         IN  Append(before, image_idx + ImageIdx(scene, i, L) - (scene + 1))

\* the indices the loop over tr computes, one per support exposure
LabelIndices(tr, scene, L) == [p \in 1..Len(tr) |-> ImageIdx(scene, tr[p], L)]

\* a read that never raises: an absent file yields an image all the same
ReadLabelSilent(name, absent) == [ok |-> TRUE, image |-> FileImage(name)]

\* io.imread(load_dir/f'{image_idx:06d}_out.png'): the image of the file, or
\* FileNotFoundError (ok = FALSE) when the directory has no such file
ReadLabel(name, absent) ==
    IF name \in absent THEN [ok |-> FALSE, image |-> FileImage(name)]
    ELSE [ok |-> TRUE, image |-> FileImage(name)]

\* the position of the first read that raised (0: every read succeeded)
FirstFailure(reads) ==
    IF \E p \in 1..Len(reads) : ~reads[p].ok
    THEN CHOOSE p \in 1..Len(reads) :
            /\ ~reads[p].ok
            /\ \A q \in 1..(p - 1) : reads[q].ok
    ELSE 0

\* ------------------------------------------------------------- main()
Init ==
    /\ pc = "start"
    /\ cfg \in [LOSS_FUNC : LossInputs, NUM_EXPOSURES : 0..MaxK,
                NUM_TASK_TR_ITER : 0..MaxIter]
    /\ env \in [unet : Params, exists : BOOLEAN, scenes : 0..MaxScenes]
    /\ theta = -1
    /\ shape = <<-1, -1>>
    /\ curr_idx = 0
    /\ j = 0
    /\ idx = 0
    /\ eval_single = ZeroAccumulator
    /\ eval_adaptive = ZeroAccumulator
    /\ out = <<>>
    /\ task = NoTask
    /\ calls = <<>>
    /\ returned = NoBags
    /\ rngDraws = 0
    /\ error = "none"

\* no validation of the loss name
LossFuncValidAny(name) == TRUE

\* eval.py:50, the assert on cfg.EVAL.LOSS_FUNC
LossFuncValid(name) == name \in LossFuncs

\* eval.py:43-51
ValidateLoss ==
    /\ pc = "start"
    /\ IF LossFuncValid(cfg.LOSS_FUNC)
       THEN /\ pc' = "loss_ok"
            /\ error' = error
       ELSE /\ pc' = "failed"
            /\ error' = "AssertionError[CONFIG]"
    /\ UNCHANGED <<cfg, env, theta, shape, curr_idx, j, idx, eval_single,
                   eval_adaptive, out, task, calls, returned, rngDraws>>

\* eval.py:53-69
LoadCheckpoint ==
    /\ pc = "loss_ok"
    /\ IF env.exists
       THEN /\ theta' = env.unet
            /\ pc' = "loaded"
            /\ error' = error
       ELSE /\ theta' = theta
            /\ pc' = "failed"
            /\ error' = "FileNotFoundError[checkpoint]"
    /\ UNCHANGED <<cfg, env, shape, curr_idx, j, idx, eval_single,
                   eval_adaptive, out, task, calls, returned, rngDraws>>

\* eval.py:71-80
BuildDataset ==
    /\ pc = "loaded"
    /\ shape' = DatasetShape(env.scenes, cfg.NUM_EXPOSURES)
    /\ eval_single' = ResetAccumulator(eval_single)
    /\ returned' = NoBags
    /\ idx' = 0
    /\ curr_idx' = 0
    /\ j' = FirstExposure
    /\ pc' = "single"
    /\ UNCHANGED <<cfg, env, theta, eval_adaptive, out, task, calls, rngDraws,
                   error>>

\* the two nested ranges of the single-shot loop are exhausted
SingleLoopDone == curr_idx >= shape[1] \/ shape[2] <= FirstExposure

\* eval.py:81-89, one iteration of the inner loop
SingleTask ==
    /\ pc = "single"
    /\ ~SingleLoopDone
    /\ LET input_test_image == DataImage(curr_idx, j)
           input_test_label == DataImage(curr_idx, 0)
       IN  \E r \in {EvaluateSingleMaml(theta, input_test_image,
                                        input_test_label)} :
           /\ task' = [NoTask EXCEPT !.mode = "single", !.scene = curr_idx,
                           !.query = <<j>>,
                           !.ts_images = <<input_test_image>>,
                           !.ts_labels = <<input_test_label>>,
                           !.start = theta, !.fast = r.fast,
                           !.ssim = r.ssim, !.psnr = r.psnr, !.called = TRUE]
           /\ theta' = r.base
           /\ eval_single' = Accumulate(eval_single, r)
           /\ returned' = Record(returned, r)
           /\ calls' = Append(calls, [mode |-> "single", scene |-> curr_idx,
                                      exp |-> j])
    /\ idx' = idx + 1
    /\ IF j + 1 < shape[2]
       THEN /\ j' = j + 1
            /\ curr_idx' = curr_idx
       ELSE /\ j' = FirstExposure
            /\ curr_idx' = curr_idx + 1
    /\ UNCHANGED <<pc, cfg, env, shape, eval_adaptive, out, rngDraws, error>>

\* eval.py:90-93
SingleReport ==
    /\ pc = "single"
    /\ SingleLoopDone
    /\ LET n == shape[1] * (shape[2] - 1)
       IN  IF n = 0
           THEN /\ pc' = "failed"
                /\ error' = "ZeroDivisionError"
                /\ UNCHANGED <<eval_single, out>>
           ELSE /\ eval_single' = Average(eval_single, n)
                /\ out' = Append(out, Report("single", eval_single'))
                /\ pc' = "single_done"
                /\ error' = error
    /\ UNCHANGED <<cfg, env, theta, shape, curr_idx, j, idx, eval_adaptive,
                   task, calls, returned, rngDraws>>

\* eval.py:95-99 and eval.py:143-154: an adaptive mode starts
AdaptiveStart(from, to) ==
    /\ pc = from
    /\ eval_adaptive' = ResetAccumulator(eval_adaptive)
    /\ returned' = NoBags
    /\ idx' = 0
    /\ curr_idx' = 0
    /\ pc' = to
    /\ UNCHANGED <<cfg, env, theta, shape, j, eval_single, out, task, calls,
                   rngDraws, error>>

DebevecStart == AdaptiveStart("single_done", "debevec")

HdrcnnStart == AdaptiveStart("debevec_done", "hdrcnn")

\* train_test_split raises ValueError: the train set would be empty
SplitFails(mode) ==
    /\ task' = [NoTask EXCEPT !.mode = mode, !.scene = curr_idx]
    /\ pc' = "failed"
    /\ error' = "ValueError[train_test_split]"
    /\ UNCHANGED <<cfg, env, theta, shape, curr_idx, j, idx, eval_single,
                   eval_adaptive, out, calls, returned, rngDraws>>

\* the call of evaluate_maml and what follows it in the loop body
EvaluateAndAccumulate(t) ==
    \E r \in {EvaluateMaml(theta, t.tr_images, t.tr_labels, t.ts_images,
                           t.ts_labels, cfg.NUM_TASK_TR_ITER)} :
        /\ task' = [t EXCEPT !.start = theta, !.fast = r.fast, !.ssim = r.ssim,
                             !.psnr = r.psnr, !.called = TRUE]
        /\ theta' = r.base
        /\ eval_adaptive' = Accumulate(eval_adaptive, r)
        /\ returned' = Record(returned, r)
        /\ calls' = Append(calls, [mode |-> t.mode, scene |-> t.scene,
                                   exp |-> 0])
        /\ idx' = idx + 1
        /\ curr_idx' = curr_idx + 1

\* a split whose query is scored against the query exposure itself
GroundTruthTaskSelfLabel(mode, scene, tr, ts, draw) ==
    [NoTask EXCEPT
       !.mode = mode, !.scene = scene, !.support = tr, !.query = ts,
       !.tr_images = [p \in 1..Len(tr) |-> DataImage(scene, tr[p])],
       !.tr_labels = [p \in 1..Len(tr) |-> DataImage(scene, 0)],
       !.ts_images = [p \in 1..Len(ts) |-> DataImage(scene, ts[p])],
       !.ts_labels = [p \in 1..Len(ts) |-> DataImage(scene, ts[p])],
       !.draw = draw]

\* eval.py:108-120 and eval.py:176-181: images and labels of a split, every
\* label the scene's image 0
GroundTruthTask(mode, scene, tr, ts, draw) ==
    [NoTask EXCEPT
       !.mode = mode, !.scene = scene, !.support = tr, !.query = ts,
       !.tr_images = [p \in 1..Len(tr) |-> DataImage(scene, tr[p])],
       !.tr_labels = [p \in 1..Len(tr) |-> DataImage(scene, 0)],
       !.ts_images = [p \in 1..Len(ts) |-> DataImage(scene, ts[p])],
       !.ts_labels = [p \in 1..Len(ts) |-> DataImage(scene, 0)],
       !.draw = draw]

\* eval.py:100-135, one iteration of the Debevec-adapted loop
DebevecScene ==
    /\ pc = "debevec"
    /\ curr_idx < shape[1]
    /\ IF TrainSize(cfg.NUM_EXPOSURES) <= 0
       THEN SplitFails("debevec")
       ELSE
          /\ \E perm \in Perms(cfg.NUM_EXPOSURES) :
               \E split \in {TrainTestSplit(Arange(cfg.NUM_EXPOSURES), perm)} :
                 \E t \in {GroundTruthTask("debevec", curr_idx, split.tr,
                                           split.ts, rngDraws)} :
                    EvaluateAndAccumulate(t)
          /\ rngDraws' = rngDraws + 1
          /\ UNCHANGED <<pc, cfg, env, shape, j, eval_single, out, error>>

\* eval.py:137-141 and eval.py:198-204: an adaptive mode reports
AdaptiveReport(from, to) ==
    /\ pc = from
    /\ curr_idx >= shape[1]
    /\ eval_adaptive' = Average(eval_adaptive, shape[1])
    /\ out' = Append(out, Report(from, eval_adaptive'))
    /\ pc' = to
    /\ UNCHANGED <<cfg, env, theta, shape, curr_idx, j, idx, eval_single,
                   task, calls, returned, rngDraws, error>>

DebevecReport == AdaptiveReport("debevec", "debevec_done")

HdrcnnReport == AdaptiveReport("hdrcnn", "done")

\* eval.py:162-173: the support images and labels of a split, each label
\* read from the baseline file of its index; the loop stops at the first
\* read that raises
BaselineSupport(scene, tr, L, absent) ==
    LET idxs == LabelIndices(tr, scene, L)
        reads == [p \in 1..Len(tr) |-> ReadLabel(Format06d(idxs[p]), absent)]
        bad == FirstFailure(reads)
        done == IF bad = 0 THEN Len(tr) ELSE bad
        read == IF bad = 0 THEN Len(tr) ELSE bad - 1
    IN  [ok |-> bad = 0,
         label_idx |-> SubSeq(idxs, 1, done),
         tr_images |-> [p \in 1..done |-> DataImage(scene, tr[p])],
         tr_labels |-> [p \in 1..read |-> reads[p].image]]

\* the baseline files a scene's split reads
SceneFiles(scene, tr, L) == {Format06d(ImageIdx(scene, tr[p], L)) : p \in 1..Len(tr)}

\* eval.py:155-196, one iteration of the HDRCNN-adapted loop; `absent` are
\* the baseline files of this scene that load_dir does not hold
HdrcnnScene ==
    /\ pc = "hdrcnn"
    /\ curr_idx < shape[1]
    /\ IF TrainSize(cfg.NUM_EXPOSURES) <= 0
       THEN SplitFails("hdrcnn")
       ELSE
          /\ rngDraws' = rngDraws + 1
          /\ \E perm \in Perms(cfg.NUM_EXPOSURES) :
               \E split \in {TrainTestSplit(Arange(cfg.NUM_EXPOSURES), perm)} :
                 \E absent \in SUBSET SceneFiles(curr_idx, split.tr, shape[1]) :
                   \E sup \in {BaselineSupport(curr_idx, split.tr, shape[1],
                                               absent)} :
                     \E t \in {[GroundTruthTask("hdrcnn", curr_idx, split.tr,
                                                split.ts, rngDraws)
                                  EXCEPT !.absent = absent,
                                         !.label_idx = sup.label_idx,
                                         !.tr_images = sup.tr_images,
                                         !.tr_labels = sup.tr_labels]} :
                       IF sup.ok
                       THEN /\ EvaluateAndAccumulate(t)
                            /\ UNCHANGED <<pc, error>>
                       ELSE /\ task' = [t EXCEPT !.ts_images = <<>>,
                                                 !.ts_labels = <<>>]
                            /\ pc' = "failed"
                            /\ error' = "FileNotFoundError[label]"
                            /\ UNCHANGED <<theta, eval_adaptive, returned,
                                           calls, idx, curr_idx>>
          /\ UNCHANGED <<cfg, env, shape, j, eval_single, out>>

Next ==
    \/ ValidateLoss
    \/ LoadCheckpoint
    \/ BuildDataset
    \/ SingleTask
    \/ SingleReport
    \/ DebevecStart
    \/ DebevecScene
    \/ DebevecReport
    \/ HdrcnnStart
    \/ HdrcnnScene
    \/ HdrcnnReport

Spec == Init /\ [][Next]_vars

\* ------------------------------------------------------------- properties
Adaptive == {"debevec", "hdrcnn"}

K == cfg.NUM_EXPOSURES

NoDuplicates(s) == Cardinality(Range(s)) = Len(s)

\* the number of evaluator calls logged for a mode, a scene and an exposure
CallCount(mode, s, e) ==
    Cardinality({p \in 1..Len(calls) :
                   calls[p] = [mode |-> mode, scene |-> s, exp |-> e]})

\* the number of evaluator calls logged for a mode
CallsOf(mode) == Cardinality({p \in 1..Len(calls) : calls[p].mode = mode})

\* the number a sequence of decimal digits denotes
RECURSIVE DigitsValue(_)
DigitsValue(d) ==
    IF d = <<>> THEN 0
    ELSE 10 * DigitsValue(SubSeq(d, 1, Len(d) - 1)) + d[Len(d)]

\* the mean of the values of a bag, as a rational
BagMean(b) == <<BagSum(b), BagCardinality(b)>>

\* C1: every split an adaptive mode draws with K >= 2 has a support and a
\* query that are disjoint, that together are exactly {1..K}, and the query
\* has exactly one element (the support K - 1 distinct ones).
C1_SplitPartition ==
    (task.mode \in Adaptive /\ K >= 2) =>
        /\ Range(task.support) \cap Range(task.query) = {}
        /\ Range(task.support) \cup Range(task.query) = 1..K
        /\ Len(task.query) = 1
        /\ Len(task.support) = K - 1
        /\ NoDuplicates(task.support)

C1_Witness ==
    /\ task.mode = "hdrcnn"
    /\ K = 3
    /\ task.query = <<2>>
    /\ task.support = <<3, 1>>

\* C2: in a run that completes, for every scene the single-shot evaluator
\* was called exactly once for each exposure 1..K and never for exposure 0
\* (K calls per scene), and the adaptive evaluator was called exactly once
\* per scene in each adaptive mode; there are no other calls.
C2_TaskCounts ==
    pc = "done" =>
        /\ \A s \in 0..(env.scenes - 1) :
              /\ \A e \in 1..K : CallCount("single", s, e) = 1
              /\ CallCount("single", s, 0) = 0
              /\ CallCount("debevec", s, 0) = 1
              /\ CallCount("hdrcnn", s, 0) = 1
        /\ CallsOf("single") = env.scenes * K
        /\ CallsOf("debevec") = env.scenes
        /\ CallsOf("hdrcnn") = env.scenes
        /\ Len(calls) = env.scenes * (K + 2)

C2_Witness ==
    /\ pc = "done"
    /\ K = 3
    /\ env.scenes = 2
    /\ Len(calls) = 10

\* the mean a mode holds after its division, against the values its tasks
\* returned and the number of tasks it evaluated
MeanIsOfOwnTasks(mode, acc) ==
    /\ BagCardinality(returned.ssim) = CallsOf(mode)
    /\ BagCardinality(returned.psnr) = CallsOf(mode)
    /\ CallsOf(mode) > 0
    /\ FEq(acc.ssim, BagMean(returned.ssim))
    /\ FEq(acc.psnr, BagMean(returned.psnr))
    /\ out[Len(out)] = Report(mode, acc)

\* C3: when a mode has reported, its mean SSIM and mean PSNR are the sum of
\* the values returned by that mode's own tasks (nothing of an earlier mode)
\* divided by the number of tasks the mode evaluated; the sum is taken over
\* the bag of the values, so it is the same for every processing order.
C3_MeanOfOwnTasks ==
    /\ pc = "single_done" => MeanIsOfOwnTasks("single", eval_single)
    /\ pc = "debevec_done" => MeanIsOfOwnTasks("debevec", eval_adaptive)
    /\ pc = "done" => MeanIsOfOwnTasks("hdrcnn", eval_adaptive)

C3_Witness ==
    /\ pc = "done"
    /\ env.scenes = 2
    /\ Len(out) = 3
    /\ out[2].ssim[1] > 0
    /\ out[3].psnr[1] > 0

\* C4: in HDRCNN-adapted mode, with s the scene and L the number of scenes,
\* the baseline index of a support exposure is s+1+L for exposure 1, s+1 for
\* exposure 2 and s+1+2L for exposure 3, whatever came before it in the
\* support, and the file read has a name of six digits denoting that index.
C4_LabelIndex ==
    task.mode = "hdrcnn" =>
        /\ \A p \in 1..Len(task.label_idx) :
              /\ task.support[p] = 1 =>
                    task.label_idx[p] = task.scene + 1 + shape[1]
              /\ task.support[p] = 2 =>
                    task.label_idx[p] = task.scene + 1
              /\ task.support[p] = 3 =>
                    task.label_idx[p] = task.scene + 1 + 2 * shape[1]
        /\ \A p \in 1..Len(task.tr_labels) :
              /\ task.tr_labels[p].src = "file"
              /\ Len(task.tr_labels[p].name) = 6
              /\ DigitsValue(task.tr_labels[p].name) = task.label_idx[p]

C4_Witness ==
    /\ task.mode = "hdrcnn"
    /\ task.called
    /\ shape[1] = 2
    /\ task.scene = 1
    /\ task.support = <<3, 1>>
    /\ task.label_idx = <<6, 4>>
    /\ task.tr_labels[1].name = <<0, 0, 0, 0, 0, 6>>

\* C5: when EVAL.LOSS_FUNC is not a registered loss, the run gets no
\* further than the validation: it fails there with the configuration
\* error, the checkpoint is not loaded, the dataset is not constructed and
\* no task is evaluated.
C5_InvalidLossFailsFirst ==
    cfg.LOSS_FUNC \notin LossFuncs =>
        /\ pc \in {"start", "failed"}
        /\ pc = "failed" => error = "AssertionError[CONFIG]"
        /\ theta = -1
        /\ shape = <<-1, -1>>
        /\ calls = <<>>
        /\ out = <<>>

C5_Witness ==
    /\ cfg.LOSS_FUNC = "MSELoss"
    /\ pc = "failed"
    /\ error = "AssertionError[CONFIG]"

\* C6: when K < 2 no single-shot task and no adaptive task is evaluated,
\* no mean is reported, and a failure is the configuration error.
C6_SmallKFailsBeforeComputation ==
    K < 2 =>
        /\ calls = <<>>
        /\ out = <<>>
        /\ pc # "done"
        /\ pc = "failed" /\ LossFuncValid(cfg.LOSS_FUNC) /\ env.exists =>
              error = "AssertionError[CONFIG]"

\* C7: in HDRCNN-adapted mode, if a baseline file expected for a support
\* exposure of the scene is absent, the run fails at that task with the
\* read's error: the labels read so far are baseline files that exist (no
\* substitute), the adaptive evaluator is not called for the scene, the
\* scene is not skipped, and no HDRCNN-adapted mean is reported.
C7_MissingLabelFails ==
    (task.mode = "hdrcnn" /\ task.absent # {}) =>
        /\ pc = "failed"
        /\ error = "FileNotFoundError[label]"
        /\ ~task.called
        /\ CallCount("hdrcnn", task.scene, 0) = 0
        /\ curr_idx = task.scene
        /\ \A p \in 1..Len(task.tr_labels) :
              /\ task.tr_labels[p].src = "file"
              /\ task.tr_labels[p].name \notin task.absent
        /\ Len(task.tr_labels) < Len(task.support)
        /\ \A p \in 1..Len(out) : out[p].mode # "hdrcnn"

C7_Witness ==
    /\ task.mode = "hdrcnn"
    /\ task.scene = 1
    /\ task.support = <<1, 2>>
    /\ task.absent = {<<0, 0, 0, 0, 0, 2>>}
    /\ Len(task.tr_labels) = 1
    /\ error = "FileNotFoundError[label]"

\* C8: the parameters meta_model holds are those loaded from the checkpoint
\* and never change: every task starts from them, whatever the tasks before
\* it adapted their own copy to.
C8_BaseParametersFixed ==
    /\ theta # -1 => theta = env.unet
    /\ task.called => task.start = env.unet

C8_Witness ==
    /\ task.called
    /\ task.mode = "hdrcnn"
    /\ task.scene = 1
    /\ cfg.NUM_TASK_TR_ITER >= 1
    /\ task.fast # task.start
    /\ theta = env.unet

\* C9: the splits of an adaptive mode do not depend on the splits another
\* mode drew before it: the split of a mode's scene s is draw number s of
\* the random stream, as it is when the mode is the first to draw.
C9_ModesIndependent ==
    (task.mode \in Adaptive /\ task.draw # -1) => task.draw = task.scene

\* C10: every image given to the model (single-shot input, support image,
\* query image) is an exposure 1..K of the task's scene, never image 0; the
\* query is scored against image 0 of that scene; Debevec-adapted support
\* labels are image 0 of the scene, and only the support labels of the
\* HDRCNN-adapted mode are baseline files.
C10_InputsAndLabels ==
    task.mode # "none" =>
        /\ \A p \in 1..Len(task.ts_images) :
              /\ task.ts_images[p] = DataImage(task.scene, task.query[p])
              /\ task.query[p] \in 1..K
        /\ \A p \in 1..Len(task.tr_images) :
              /\ task.tr_images[p] = DataImage(task.scene, task.support[p])
              /\ task.support[p] \in 1..K
        /\ \A p \in 1..Len(task.ts_labels) :
              task.ts_labels[p] = DataImage(task.scene, 0)
        /\ task.called =>
              /\ Len(task.ts_images) = 1
              /\ Len(task.ts_labels) = 1
              /\ Len(task.tr_images) = Len(task.support)
              /\ Len(task.tr_labels) = Len(task.support)
        /\ task.mode = "single" => task.tr_images = <<>> /\ task.tr_labels = <<>>
        /\ task.mode = "debevec" =>
              \A p \in 1..Len(task.tr_labels) :
                 task.tr_labels[p] = DataImage(task.scene, 0)
        /\ task.mode = "hdrcnn" =>
              \A p \in 1..Len(task.tr_labels) : task.tr_labels[p].src = "file"

C10_Witness ==
    /\ task.mode = "hdrcnn"
    /\ task.called
    /\ K = 3
    /\ task.scene = 1
    /\ task.query = <<1>>
    /\ task.ts_labels = <<DataImage(1, 0)>>

=============================================================================
